---- MODULE Spec2Model ----
(***************************************************************************)
(* Voice-code hasher of the Produce Traceability Initiative (PTI).         *)
(* A string is a sequence of Unicode scalar values (code points); a call   *)
(* of a public function of HashVoiceCode is one action, its result is      *)
(* recorded in `result`.  Two revisions of the library are modelled:       *)
(* "voicecode" (src/src/voicecode.rs) and "lib" (src/src/lib.rs).          *)
(***************************************************************************)
EXTENDS Integers, Sequences, FiniteSets, TLC

VARIABLES call, args, result

vars == <<call, args, result>>

(* ---------------------------------------------------------------------- *)
(* Bounds of the explored inputs                                           *)
(* ---------------------------------------------------------------------- *)
MaxGtinLen == 15
MaxLotLen == 21
MaxAsciiChar == 127

(* ---------------------------------------------------------------------- *)
(* Characters and strings                                                  *)
(* ---------------------------------------------------------------------- *)
\* code points outside ASCII that Unicode classifies as N (Nd, Nl, No) and
\* that the inputs of the model use: superscript two, vulgar fraction one
\* half, ARABIC-INDIC DIGIT THREE, ROMAN NUMERAL EIGHT, MATHEMATICAL BOLD
\* DIGIT ZERO
UnicodeN == {178, 189, 1635, 8551, 120782}

\* char::is_numeric
is_numeric(c) ==
    IF c \in 48..57 THEN TRUE
    ELSE IF c > 127 THEN c \in UnicodeN
    ELSE FALSE

\* chars().all(char::is_numeric)
all_numeric(s) == \A i \in 1..Len(s) : is_numeric(s[i])

\* number of bytes of the UTF-8 encoding of one char
len_utf8(c) ==
    IF c < 128 THEN 1
    ELSE IF c < 2048 THEN 2
    ELSE IF c < 65536 THEN 3
    ELSE 4

RECURSIVE byte_len_from(_, _)
byte_len_from(s, i) ==
    IF i > Len(s) THEN 0 ELSE len_utf8(s[i]) + byte_len_from(s, i + 1)

\* str::len: the length in bytes, not in chars
len(s) == byte_len_from(s, 1)

\* format!("{:0>2}", s): left-pad with '0' to a width of 2 chars
pad2(s) ==
    IF Len(s) >= 2 THEN s ELSE [i \in 1..(2 - Len(s)) |-> 48] \o s

\* decimal digits of a non-negative integer, most significant first
RECURSIVE to_decimal(_)
to_decimal(n) ==
    IF n < 10 THEN <<48 + n>> ELSE Append(to_decimal(n \div 10), 48 + (n % 10))

\* format!("{:04}", n): decimal, left-padded with '0' to a width of 4
format_04(n) ==
    LET d == to_decimal(n)
    IN  IF Len(d) >= 4 THEN d ELSE [i \in 1..(4 - Len(d)) |-> 48] \o d

\* bitwise exclusive or of two non-negative integers
RECURSIVE bit_xor(_, _)
bit_xor(a, b) ==
    IF a = 0 THEN b
    ELSE IF b = 0 THEN a
    ELSE ((a + b) % 2) + 2 * bit_xor(a \div 2, b \div 2)

(* ---------------------------------------------------------------------- *)
(* Lookup tables                                                           *)
(* ---------------------------------------------------------------------- *)
\* the literal table of lib.rs, entry i of the source at position i + 1
HASH_VOICE_CHECKSUM_HASH_T_lib == <<
    0, 49345, 49537, 320, 49921, 960, 640, 49729, 50689, 1728, 1920, 51009, 1280, 50625, 50305, 1088,
    52225, 3264, 3456, 52545, 3840, 53185, 52865, 3648, 2560, 51905, 52097, 2880, 51457, 2496, 2176, 51265,
    55297, 6336, 6528, 55617, 6912, 56257, 55937, 6720, 7680, 57025, 57217, 8000, 56577, 7616, 7296, 56385,
    5120, 54465, 54657, 5440, 55041, 6080, 5760, 54849, 53761, 4800, 4992, 54081, 4352, 53697, 53377, 4160,
    61441, 12480, 12672, 61761, 13056, 62401, 62081, 12864, 13824, 63169, 63361, 14144, 62721, 13760, 13440, 62529,
    15360, 64705, 64897, 15680, 65281, 16320, 16000, 65089, 64001, 15040, 15232, 64321, 14592, 63937, 63617, 14400,
    10240, 59585, 59777, 10560, 60161, 11200, 10880, 59969, 60929, 11968, 12160, 61249, 11520, 60865, 60545, 11328,
    58369, 9408, 9600, 58689, 9984, 59329, 59009, 9792, 8704, 58049, 58241, 9024, 57601, 8640, 8320, 57409,
    40961, 24768, 24960, 41281, 25344, 41921, 41601, 25152, 26112, 42689, 42881, 26432, 42241, 26048, 25728, 42049,
    27648, 44225, 44417, 27968, 44801, 28608, 28288, 44609, 43521, 27328, 27520, 43841, 26880, 43457, 43137, 26688,
    30720, 47297, 47489, 31040, 47873, 31680, 31360, 47681, 48641, 32448, 32640, 48961, 32000, 48577, 48257, 31808,
    46081, 29888, 30080, 46401, 30464, 47041, 46721, 30272, 29184, 45761, 45953, 29504, 45313, 29120, 28800, 45121,
    20480, 37057, 37249, 20800, 37633, 21440, 21120, 37441, 38401, 22208, 22400, 38721, 21760, 38337, 38017, 21568,
    39937, 23744, 23936, 40257, 24320, 40897, 40577, 24128, 23040, 39617, 39809, 23360, 39169, 22976, 22656, 38977,
    34817, 18624, 18816, 35137, 19200, 35777, 35457, 19008, 19968, 36545, 36737, 20288, 36097, 19904, 19584, 35905,
    17408, 33985, 34177, 17728, 34561, 18368, 18048, 34369, 33281, 17088, 17280, 33601, 16640, 33217, 32897, 16448>>

\* 0x8005, the same polynomial with its bits in the other order
CRC_POLYNOMIAL_unreflected == 32768 + 5

\* the polynomial handed to create_crc_lut
CRC_POLYNOMIAL == 40961

\* one shift-and-conditional-XOR step
crc_step(value, polynomial) ==
    IF value % 2 = 1 THEN bit_xor(value \div 2, polynomial) ELSE value \div 2

RECURSIVE crc_entry(_, _, _)
crc_entry(value, polynomial, bit) ==
    IF bit = 8 THEN value
    ELSE crc_entry(crc_step(value, polynomial), polynomial, bit + 1)

\* create_crc_lut(polynomial): entry i at position i + 1
create_crc_lut(polynomial) == [i \in 1..256 |-> crc_entry(i - 1, polynomial, 0)]

HASH_VOICE_CHECKSUM_HASH_T_voicecode == create_crc_lut(CRC_POLYNOMIAL)

HASH_VOICE_CHECKSUM_HASH_T(rev) ==
    IF rev = "lib" THEN HASH_VOICE_CHECKSUM_HASH_T_lib
    ELSE HASH_VOICE_CHECKSUM_HASH_T_voicecode

(* ---------------------------------------------------------------------- *)
(* The hash                                                                *)
(* ---------------------------------------------------------------------- *)
\* ch as u16: the code point truncated to 16 bits
as_u16(ch) == ch % 65536

\* a panic (index or slice out of range) is the value PANIC; it is handed
\* on to the result of the call
PANIC == -1
PANIC_TEXT == <<PANIC>>

table_index_no_mod(output, ch) == bit_xor(output, as_u16(ch))

table_index_mod32(output, ch) == bit_xor(output, as_u16(ch)) % 32

\* ((output ^ (ch as u16)) % 256) as usize
table_index(output, ch) == bit_xor(output, as_u16(ch)) % 256

\* HASH_VOICE_CHECKSUM_HASH_T[index]: an index outside the 256 entries panics
table_at(rev, index) ==
    IF index \in 0..255 THEN HASH_VOICE_CHECKSUM_HASH_T(rev)[index + 1] ELSE PANIC

fold_step_shift7(rev, output, ch) ==
    LET entry == table_at(rev, table_index(output, ch))
    IN  IF entry = PANIC THEN PANIC ELSE bit_xor(output \div 128, entry)

\* output = (output >> 8) ^ HASH_VOICE_CHECKSUM_HASH_T[index]
fold_step(rev, output, ch) ==
    LET entry == table_at(rev, table_index(output, ch))
    IN  IF entry = PANIC THEN PANIC ELSE bit_xor(output \div 256, entry)

\* the loop over input.chars(), from char i on.  `output` is a u16: a value
\* outside 0..65535 ends the loop and is returned as it is, for the range
\* properties to see
RECURSIVE fold(_, _, _, _)
fold(rev, output, input, i) ==
    IF i > Len(input) \/ output \notin 0..65535 THEN output
    ELSE fold(rev, fold_step(rev, output, input[i]), input, i + 1)

voice_code_format_no_mod(output) == format_04(output)

\* format!("{:04}", output % 10000)
voice_code_format(output) == format_04(output % 10000)

generate_voice_code_hash(rev, input) ==
    LET output == fold(rev, 0, input, 1)
    IN  IF output = PANIC THEN PANIC_TEXT ELSE voice_code_format(output)

(* ---------------------------------------------------------------------- *)
(* Validation                                                              *)
(* ---------------------------------------------------------------------- *)
\* the character class of LOT_REGEX, item by item: a single char <<c, c>>
\* or a range <<lo, hi>>
LOT_REGEX_CLASS == <<
    <<33, 33>>, <<34, 34>>, <<37, 37>>, <<38, 38>>, <<39, 39>>, <<40, 40>>,
    <<41, 41>>, <<42, 42>>, <<43, 43>>, <<44, 44>>, <<45, 45>>, <<46, 46>>,
    <<47, 47>>, <<48, 57>>, <<58, 58>>, <<59, 59>>, <<60, 60>>, <<61, 61>>,
    <<62, 62>>, <<63, 63>>, <<65, 90>>, <<95, 95>>, <<97, 122>> >>

LOT_REGEX_MIN == 1
LOT_REGEX_MAX == 20

in_class(c) ==
    \E k \in 1..Len(LOT_REGEX_CLASS) :
        LOT_REGEX_CLASS[k][1] <= c /\ c <= LOT_REGEX_CLASS[k][2]

LOT_REGEX_is_match_unbounded(s) ==
    /\ Len(s) >= LOT_REGEX_MIN
    /\ \A i \in 1..Len(s) : in_class(s[i])

\* ^[class]{1,20}$ : the whole text is 1 to 20 chars of the class
LOT_REGEX_is_match(s) ==
    /\ Len(s) >= LOT_REGEX_MIN
    /\ Len(s) <= LOT_REGEX_MAX
    /\ \A i \in 1..Len(s) : in_class(s[i])

validate_lot(lot) == LOT_REGEX_is_match(lot)

\* voicecode.rs
validate_gtin_voicecode(gtin) ==
    all_numeric(gtin) /\ (len(gtin) = 8 \/ len(gtin) = 12 \/ len(gtin) = 13 \/ len(gtin) = 14)

\* lib.rs
validate_gtin_lib(gtin) == all_numeric(gtin) \/ len(gtin) # 14

validate_gtin(rev, gtin) ==
    IF rev = "lib" THEN validate_gtin_lib(gtin) ELSE validate_gtin_voicecode(gtin)

\* the check new makes of one date component; TRUE when it passes
date_component_ok(s) == ~(~all_numeric(s) \/ len(s) > 2 \/ len(s) < 1)

(* ---------------------------------------------------------------------- *)
(* HashVoiceCode::new                                                      *)
(* ---------------------------------------------------------------------- *)
ERR_YY == "Date component YY must be numeric and 1 or 2 digits"
ERR_MM == "Date component MM must be numeric and 1 or 2 digits"
ERR_DD == "Date component DD must be numeric and 1 or 2 digits"
ERR_LOT == "LOT must be alphanumeric and/or !, \", %, &, ', (, ), *, +, -, ., /, :, ;, <, =, >, ?, _ and comma"
ERR_GTIN == "GTIN must be numeric 14 digits"

Err(msg) == [kind |-> "Err", value |-> msg]
Ok(v) == [kind |-> "Ok", value |-> v]

\* s[from..]: the bytes from index `from` on (the text is ASCII here, one
\* byte per char)
slice_from(s, from) ==
    IF s = PANIC_TEXT \/ from > Len(s) THEN PANIC_TEXT ELSE SubSeq(s, from + 1, Len(s))

\* s[..to]
slice_to(s, to) ==
    IF s = PANIC_TEXT \/ to > Len(s) THEN PANIC_TEXT ELSE SubSeq(s, 1, to)

voice_code_major_from1(voice_code) == slice_from(voice_code, 1)

voice_code_major(voice_code) == slice_from(voice_code, 2)

voice_code_minor(voice_code) == slice_to(voice_code, 2)

\* lines 102-117: the record built once every check has passed
build_record(rev, gtin, lot, pack_date_yy, pack_date_mm, pack_date_dd) ==
    LET yy == pad2(pack_date_yy)
        mm == pad2(pack_date_mm)
        dd == pad2(pack_date_dd)
        hash_text == gtin \o lot \o pack_date_yy \o pack_date_mm \o pack_date_dd
        voice_code == generate_voice_code_hash(rev, hash_text)
    IN  [ hash_text |-> hash_text,
          gtin |-> gtin,
          lot |-> lot,
          pack_date |-> yy \o mm \o dd,
          voice_code |-> voice_code,
          voice_code_major |-> voice_code_major(voice_code),
          voice_code_minor |-> voice_code_minor(voice_code) ]

new_gtin_before_lot(rev, gtin, lot, pack_date_yy, pack_date_mm, pack_date_dd) ==
    IF ~date_component_ok(pack_date_yy) THEN Err(ERR_YY)
    ELSE IF ~date_component_ok(pack_date_mm) THEN Err(ERR_MM)
    ELSE IF ~date_component_ok(pack_date_dd) THEN Err(ERR_DD)
    ELSE IF ~validate_gtin(rev, gtin) THEN Err(ERR_GTIN)
    ELSE IF ~validate_lot(lot) THEN Err(ERR_LOT)
    ELSE Ok(build_record(rev, gtin, lot, pack_date_yy, pack_date_mm, pack_date_dd))

new(rev, gtin, lot, pack_date_yy, pack_date_mm, pack_date_dd) ==
    IF ~date_component_ok(pack_date_yy) THEN Err(ERR_YY)
    ELSE IF ~date_component_ok(pack_date_mm) THEN Err(ERR_MM)
    ELSE IF ~date_component_ok(pack_date_dd) THEN Err(ERR_DD)
    ELSE IF ~validate_lot(lot) THEN Err(ERR_LOT)
    ELSE IF ~validate_gtin(rev, gtin) THEN Err(ERR_GTIN)
    ELSE Ok(build_record(rev, gtin, lot, pack_date_yy, pack_date_mm, pack_date_dd))

\* format!("{}{}{:0>2}{:0>2}{:0>2}", ...)
generate_voice_code_text(gtin, lot, pack_date_yy, pack_date_mm, pack_date_dd) ==
    gtin \o lot \o pad2(pack_date_yy) \o pad2(pack_date_mm) \o pad2(pack_date_dd)

(* ---------------------------------------------------------------------- *)
(* HashVoiceCode::new_naive                                                *)
(* ---------------------------------------------------------------------- *)
\* a NaiveDate is <<year, month, day>> of the proleptic Gregorian calendar
year_of(date) == date[1]
month_of(date) == date[2]
day_of(date) == date[3]

format_y_unpadded(date) == to_decimal(year_of(date) % 100)

\* pack_date.format("%y"): the year modulo 100 (never negative),
\* zero-padded to 2 digits
format_y(date) == pad2(to_decimal(year_of(date) % 100))

\* pack_date.format("%m"): the month, zero-padded to 2 digits
format_m(date) == pad2(to_decimal(month_of(date)))

\* pack_date.format("%d"): the day of the month, zero-padded to 2 digits
format_d(date) == pad2(to_decimal(day_of(date)))

new_naive(rev, gtin, lot, pack_date) ==
    LET date_yy == format_y(pack_date)
        date_mm == format_m(pack_date)
        date_dd == format_d(pack_date)
    IN  new(rev, gtin, lot, date_yy, date_mm, date_dd)

(* ---------------------------------------------------------------------- *)
(* Inputs                                                                  *)
(* ---------------------------------------------------------------------- *)
Revisions == {"voicecode", "lib"}

\* "12345678901244"
GTIN_REF1 == <<49, 50, 51, 52, 53, 54, 55, 56, 57, 48, 49, 50, 52, 52>>
\* "61414100734933"
GTIN_REF2 == <<54, 49, 52, 49, 52, 49, 48, 48, 55, 51, 52, 57, 51, 51>>
\* "LOT123"
LOT_REF1 == <<76, 79, 84, 49, 50, 51>>
\* "32ABCD"
LOT_UPPER == <<51, 50, 65, 66, 67, 68>>
\* "32abcd"
LOT_LOWER == <<51, 50, 97, 98, 99, 100>>
\* "12345678901244LOT123030102"
TEXT_REF1 == <<49, 50, 51, 52, 53, 54, 55, 56, 57, 48, 49, 50, 52, 52, 76, 79, 84, 49, 50, 51, 48, 51, 48, 49, 48, 50>>
\* the 19 punctuation chars of the class: !"%&'()*+,-./:;<=>?
LOT_PUNCT == <<33, 34, 37, 38, 39, 40, 41, 42, 43, 44, 45, 46, 47, 58, 59, 60, 61, 62, 63>>

\* n chars, all c
run(c, n) == [i \in 1..n |-> c]

\* the first n chars of base repeated for ever
prefix(base, n) == [i \in 1..n |-> base[((i - 1) % Len(base)) + 1]]

\* s with its last char replaced by c
with_last(s, c) == [i \in 1..Len(s) |-> IF i = Len(s) THEN c ELSE s[i]]

\* chars that are no ASCII digit: 'A', ' ', '/', ':', e-acute, and the
\* non-ASCII numerics
OddChars == {65, 32, 47, 58, 233} \cup UnicodeN

GtinInputs ==
    {prefix(b, n) : b \in {GTIN_REF1, GTIN_REF2}, n \in 0..MaxGtinLen}
    \cup {with_last(prefix(GTIN_REF1, n), c) : n \in 1..MaxGtinLen, c \in OddChars}
    \cup {run(c, n) : c \in UnicodeN, n \in 1..MaxGtinLen}

NewGtinInputs ==
    { GTIN_REF1, GTIN_REF2, prefix(GTIN_REF1, 8), prefix(GTIN_REF1, 7),
      with_last(GTIN_REF1, 65), run(178, 4) }

LotInputs ==
    {<<c>> : c \in 0..MaxAsciiChar}
    \cup {<<c>> : c \in OddChars}
    \cup {run(c, n) : c \in {65, 95, 63, 122}, n \in 0..MaxLotLen}
    \cup {Append(run(65, n), c) : n \in {1, 19, 20}, c \in {35, 64, 32, 10, 233}}
    \cup {<<c>> \o run(97, n) : n \in {1, 19}, c \in {35, 64, 32, 10}}
    \cup {LOT_REF1, LOT_UPPER, LOT_LOWER, LOT_PUNCT, Append(LOT_PUNCT, 95)}

NewLotInputs ==
    {LOT_REF1, LOT_UPPER, LOT_LOWER, <<>>, <<65, 35>>, run(65, MaxLotLen)}

\* "1", "2", "01", "02", "03", "99", "", "ab", "123", superscript two
DateInputs ==
    { <<49>>, <<50>>, <<48, 49>>, <<48, 50>>, <<48, 51>>, <<57, 57>>,
      <<>>, <<97, 98>>, <<49, 50, 51>>, <<178>> }

\* date components for generate_voice_code_text: "1", "01", "", "123", "m", "yy"
TextDateInputs == {<<49>>, <<48, 49>>, <<>>, <<49, 50, 51>>, <<109>>, <<121, 121>>}

HashInputs ==
    {prefix(TEXT_REF1, n) : n \in 0..Len(TEXT_REF1)}
    \cup {<<c>> : c \in 0..MaxAsciiChar}
    \cup {<<c>> : c \in OddChars}
    \cup {GTIN_REF2 \o LOT_UPPER \o <<48, 49, 48, 49, 48, 49>>}
    \cup {run(c, n) : c \in {255, 8551, 120782}, n \in 1..3}
    \cup {run(178, 4) \o LOT_LOWER \o <<178, 49, 120782>>}

\* the calendar dates handed to new_naive: what NaiveDate::from_ymd_opt
\* accepts, for a few years, every month and the days at the ends of the
\* months and around the change from one to two digits
NaiveYears == {-1, 1999, 2000, 2001, 2003}
NaiveDays == {1, 2, 9, 10, 28, 29, 30, 31}

is_leap_year(y) == (y % 4 = 0 /\ y % 100 # 0) \/ y % 400 = 0

days_in_month(y, m) ==
    IF m \in {4, 6, 9, 11} THEN 30
    ELSE IF m = 2 THEN (IF is_leap_year(y) THEN 29 ELSE 28)
    ELSE 31

NaiveDates ==
    {date \in NaiveYears \X (1..12) \X NaiveDays :
        date[3] <= days_in_month(date[1], date[2])}

NaiveGtinInputs == {GTIN_REF1, GTIN_REF2, with_last(GTIN_REF1, 65)}

NaiveLotInputs == {LOT_REF1, LOT_UPPER, <<65, 35>>}

\* polynomials handed to create_crc_lut: the one of voicecode.rs, 0, 1,
\* 0x8408 and 0xFFFF
CrcPolynomials == {CRC_POLYNOMIAL, 0, 1, 33800, 65535}

(* ---------------------------------------------------------------------- *)
(* The calls                                                               *)
(* ---------------------------------------------------------------------- *)
NoResult == [kind |-> "None", value |-> <<>>]

Init ==
    /\ call = "none"
    /\ args = [rev |-> "none"]
    /\ result = NoResult

New(rev, gtin, lot, yy, mm, dd) ==
    /\ call = "none"
    /\ call' = "new"
    /\ args' = [rev |-> rev, gtin |-> gtin, lot |-> lot, yy |-> yy, mm |-> mm, dd |-> dd]
    /\ result' = new(rev, gtin, lot, yy, mm, dd)

ValidateLot(lot) ==
    /\ call = "none"
    /\ call' = "validate_lot"
    /\ args' = [rev |-> "voicecode", lot |-> lot]
    /\ result' = [kind |-> "Bool", value |-> validate_lot(lot)]

ValidateGtin(rev, gtin) ==
    /\ call = "none"
    /\ call' = "validate_gtin"
    /\ args' = [rev |-> rev, gtin |-> gtin]
    /\ result' = [kind |-> "Bool", value |-> validate_gtin(rev, gtin)]

GenerateVoiceCodeText(gtin, lot, yy, mm, dd) ==
    /\ call = "none"
    /\ call' = "generate_voice_code_text"
    /\ args' = [rev |-> "voicecode", gtin |-> gtin, lot |-> lot, yy |-> yy, mm |-> mm, dd |-> dd]
    /\ result' = [kind |-> "String", value |-> generate_voice_code_text(gtin, lot, yy, mm, dd)]

GenerateVoiceCodeHash(rev, input) ==
    /\ call = "none"
    /\ call' = "generate_voice_code_hash"
    /\ args' = [rev |-> rev, input |-> input]
    /\ result' = [kind |-> "String", value |-> generate_voice_code_hash(rev, input)]

NewNaive(rev, gtin, lot, pack_date) ==
    /\ call = "none"
    /\ call' = "new_naive"
    /\ args' = [rev |-> rev, gtin |-> gtin, lot |-> lot, pack_date |-> pack_date]
    /\ result' = new_naive(rev, gtin, lot, pack_date)

CreateCrcLut(polynomial) ==
    /\ call = "none"
    /\ call' = "create_crc_lut"
    /\ args' = [rev |-> "voicecode", polynomial |-> polynomial]
    /\ result' = [kind |-> "Table", value |-> create_crc_lut(polynomial)]

\* the caller drops the result; the library keeps no state between calls
Return ==
    /\ call # "none"
    /\ call' = "none"
    /\ args' = [rev |-> "none"]
    /\ result' = NoResult

\* every call starts from the idle state; the guard stands before the choice
\* of the inputs
Next ==
    \/ /\ call = "none"
       /\ \E rev \in Revisions, gtin \in NewGtinInputs, lot \in NewLotInputs,
             yy \in DateInputs, mm \in DateInputs, dd \in DateInputs :
             New(rev, gtin, lot, yy, mm, dd)
    \/ /\ call = "none"
       /\ \E lot \in LotInputs : ValidateLot(lot)
    \/ /\ call = "none"
       /\ \E rev \in Revisions, gtin \in GtinInputs : ValidateGtin(rev, gtin)
    \/ /\ call = "none"
       /\ \E gtin \in {GTIN_REF1, <<97>>}, lot \in {LOT_REF1, <<98>>},
             yy \in TextDateInputs, mm \in TextDateInputs, dd \in TextDateInputs :
             GenerateVoiceCodeText(gtin, lot, yy, mm, dd)
    \/ /\ call = "none"
       /\ \E rev \in Revisions, input \in HashInputs : GenerateVoiceCodeHash(rev, input)
    \/ /\ call = "none"
       /\ \E rev \in Revisions, gtin \in NaiveGtinInputs, lot \in NaiveLotInputs,
             pack_date \in NaiveDates :
             NewNaive(rev, gtin, lot, pack_date)
    \/ /\ call = "none"
       /\ \E polynomial \in CrcPolynomials : CreateCrcLut(polynomial)
    \/ Return

Spec == Init /\ [][Next]_vars

(* ---------------------------------------------------------------------- *)
(* Properties                                                              *)
(* ---------------------------------------------------------------------- *)
IsAsciiDigit(c) == c \in 48..57

AllAsciiDigits(s) == \A i \in 1..Len(s) : IsAsciiDigit(s[i])

\* a GTIN as the specification defines it
IsGtin(s) == AllAsciiDigits(s) /\ Len(s) \in {8, 12, 13, 14}

\* a date component as the specification defines it
IsDateComponent(s) == Len(s) \in {1, 2} /\ AllAsciiDigits(s)

IsSingleDigit(s) == Len(s) = 1 /\ IsAsciiDigit(s[1])

IsFourDigits(s) == Len(s) = 4 /\ AllAsciiDigits(s)

\* the number a string of ASCII digits denotes
RECURSIVE decimal_value(_)
decimal_value(s) ==
    IF Len(s) = 0 THEN 0
    ELSE 10 * decimal_value(SubSeq(s, 1, Len(s) - 1)) + (s[Len(s)] - 48)

NewReturned == call = "new"
NewOk == call = "new" /\ result.kind = "Ok"

\* C1: for a valid gtin and lot and single digits a, b, c, new(gtin, lot,
\* a, b, c) and new(gtin, lot, "0"+a, "0"+b, "0"+c) both succeed and give
\* the same voice_code.
C1_PaddingIdempotence ==
    ( /\ NewReturned
      /\ IsGtin(args.gtin)
      /\ validate_lot(args.lot)
      /\ IsSingleDigit(args.yy) /\ IsSingleDigit(args.mm) /\ IsSingleDigit(args.dd) )
    => LET padded == new(args.rev, args.gtin, args.lot,
                         <<48>> \o args.yy, <<48>> \o args.mm, <<48>> \o args.dd)
       IN  /\ result.kind = "Ok"
           /\ padded.kind = "Ok"
           /\ result.value.voice_code = padded.value.voice_code

\* C2: in every record new returns, hash_text is gtin ++ lot ++ the
\* zero-padded yy, mm, dd (that is gtin ++ lot ++ pack_date, the text
\* generate_voice_code_text builds), and voice_code is the hash of that text.
C2_HashTextIsPadded ==
    NewOk =>
        LET text == generate_voice_code_text(args.gtin, args.lot, args.yy, args.mm, args.dd)
        IN  /\ result.value.hash_text = text
            /\ result.value.hash_text = args.gtin \o args.lot \o result.value.pack_date
            /\ result.value.voice_code = generate_voice_code_hash(args.rev, text)

\* "6991", "1085", "8079"
CODE_6991 == <<54, 57, 57, 49>>
CODE_1085 == <<49, 48, 56, 53>>
CODE_8079 == <<56, 48, 55, 57>>

IsNewOf(gtin, lot, yy, mm, dd) ==
    /\ call = "new"
    /\ args.gtin = gtin /\ args.lot = lot
    /\ args.yy = yy /\ args.mm = mm /\ args.dd = dd

\* C3: the reference vectors: new("12345678901244", "LOT123", "03", "01",
\* "02") gives voice_code "6991", new("61414100734933", "32ABCD", "01",
\* "01", "01") gives "1085", and
\* generate_voice_code_hash("12345678901244LOT123030102") gives "6991".
C3_ReferenceVectors ==
    /\ IsNewOf(GTIN_REF1, LOT_REF1, <<48, 51>>, <<48, 49>>, <<48, 50>>)
         => (result.kind = "Ok" /\ result.value.voice_code = CODE_6991)
    /\ IsNewOf(GTIN_REF2, LOT_UPPER, <<48, 49>>, <<48, 49>>, <<48, 49>>)
         => (result.kind = "Ok" /\ result.value.voice_code = CODE_1085)
    /\ (call = "generate_voice_code_hash" /\ args.input = TEXT_REF1)
         => result.value = CODE_6991

C3_Witness ==
    /\ IsNewOf(GTIN_REF1, LOT_REF1, <<48, 51>>, <<48, 49>>, <<48, 50>>)
    /\ args.rev = "lib"
    /\ result.kind = "Ok"
    /\ result.value.voice_code = CODE_6991

\* C4: for every gtin and date triple new accepts, the voice_code of lot
\* "32abcd" differs from the voice_code of lot "32ABCD".
C4_CaseSensitivity ==
    (NewOk /\ args.lot = LOT_LOWER) =>
        LET upper == new(args.rev, args.gtin, LOT_UPPER, args.yy, args.mm, args.dd)
        IN  /\ upper.kind = "Ok"
            /\ upper.value.voice_code # result.value.voice_code

C4_Witness ==
    /\ IsNewOf(GTIN_REF2, LOT_LOWER, <<48, 51>>, <<48, 49>>, <<48, 50>>)
    /\ result.kind = "Ok"
    /\ result.value.voice_code = CODE_8079

\* C5: validate_gtin(s) is true exactly when every char of s is an ASCII
\* digit and s has 8, 12, 13 or 14 chars.
C5_ValidateGtin ==
    (call = "validate_gtin" /\ args.rev = "voicecode") =>
        (result.value <=> IsGtin(args.gtin))

\* the chars the specification allows in a lot: ASCII letters, ASCII
\* digits, underscore and ! " % & ' ( ) * + , - . / : ; < = > ?
AllowedLotChars ==
    (65..90) \cup (97..122) \cup (48..57) \cup {95}
    \cup {33, 34, 37, 38, 39, 40, 41, 42, 43, 44, 45, 46, 47, 58, 59, 60, 61, 62, 63}

Contains(s, c) == \E i \in 1..Len(s) : s[i] = c

\* C6: validate_lot(s) is true exactly when s has 1 to 20 chars, all of
\* them allowed; the empty string, a 21-char string and a string with '#',
\* '@', a space or a newline are rejected.
C6_ValidateLot ==
    call = "validate_lot" =>
        /\ result.value <=>
              ( /\ Len(args.lot) >= 1
                /\ Len(args.lot) <= 20
                /\ \A i \in 1..Len(args.lot) : args.lot[i] \in AllowedLotChars )
        /\ ( \/ Len(args.lot) = 0
             \/ Len(args.lot) = 21
             \/ \E c \in {35, 64, 32, 10} : Contains(args.lot, c) ) => ~result.value

C6_Witness ==
    /\ call = "validate_lot"
    /\ args.lot = Append(LOT_PUNCT, 95)
    /\ Len(args.lot) = 20
    /\ result.value = TRUE

\* C7: new accepts a date component exactly when it has 1 or 2 chars, all
\* ASCII digits; otherwise it returns that component's error.
C7_DateComponent ==
    NewReturned =>
        /\ (result = Err(ERR_YY)) <=> ~IsDateComponent(args.yy)
        /\ IsDateComponent(args.yy) =>
              ((result = Err(ERR_MM)) <=> ~IsDateComponent(args.mm))
        /\ (IsDateComponent(args.yy) /\ IsDateComponent(args.mm)) =>
              ((result = Err(ERR_DD)) <=> ~IsDateComponent(args.dd))

\* C8: new checks yy, mm, dd, lot, gtin in this order and returns the error
\* of the first check that fails; it returns a record exactly when the five
\* checks pass, and an error carries no record.
C8_FirstFailureWins ==
    NewReturned =>
        LET okYY == date_component_ok(args.yy)
            okMM == date_component_ok(args.mm)
            okDD == date_component_ok(args.dd)
            okLot == validate_lot(args.lot)
            okGtin == validate_gtin(args.rev, args.gtin)
        IN  /\ ~okYY => result = Err(ERR_YY)
            /\ (okYY /\ ~okMM) => result = Err(ERR_MM)
            /\ (okYY /\ okMM /\ ~okDD) => result = Err(ERR_DD)
            /\ (okYY /\ okMM /\ okDD /\ ~okLot) => result = Err(ERR_LOT)
            /\ (okYY /\ okMM /\ okDD /\ okLot /\ ~okGtin) => result = Err(ERR_GTIN)
            /\ (result.kind = "Ok") <=> (okYY /\ okMM /\ okDD /\ okLot /\ okGtin)
            /\ result.kind \in {"Ok", "Err"}
            /\ result.kind = "Err" =>
                  result.value \in {ERR_YY, ERR_MM, ERR_DD, ERR_LOT, ERR_GTIN}
            /\ result.kind = "Ok" =>
                  (result.value.gtin = args.gtin /\ result.value.lot = args.lot)

\* an invalid lot together with an invalid gtin: the lot error
C8_Witness ==
    /\ call = "new"
    /\ date_component_ok(args.yy) /\ date_component_ok(args.mm) /\ date_component_ok(args.dd)
    /\ ~validate_lot(args.lot)
    /\ ~validate_gtin(args.rev, args.gtin)
    /\ result = Err(ERR_LOT)

\* C9: generate_voice_code_hash returns, for every input, the final
\* accumulator mod 10000 as exactly 4 decimal digits; the voice_code of
\* every record is a 4-char all-digit string of value 0..9999.
C9_DigestRange ==
    /\ call = "generate_voice_code_hash" =>
          /\ IsFourDigits(result.value)
          /\ decimal_value(result.value) \in 0..9999
          /\ decimal_value(result.value) = fold(args.rev, 0, args.input, 1) % 10000
    /\ NewOk =>
          /\ IsFourDigits(result.value.voice_code)
          /\ decimal_value(result.value.voice_code) \in 0..9999

\* an accumulator above 9999 is reduced: 56991 gives "6991"
C9_Witness ==
    /\ call = "generate_voice_code_hash"
    /\ args.input = TEXT_REF1
    /\ fold(args.rev, 0, args.input, 1) = 56991
    /\ result.value = CODE_6991

\* C10: in every record, voice_code_minor is the first two chars of
\* voice_code and voice_code_major the last two, so minor ++ major is
\* voice_code.
C10_SplitInvariant ==
    NewOk =>
        LET r == result.value
        IN  /\ Len(r.voice_code_minor) = 2
            /\ Len(r.voice_code_major) = 2
            /\ r.voice_code_minor = SubSeq(r.voice_code, 1, 2)
            /\ r.voice_code_major = SubSeq(r.voice_code, Len(r.voice_code) - 1, Len(r.voice_code))
            /\ r.voice_code_minor \o r.voice_code_major = r.voice_code

\* "1085" gives minor "10" and major "85"
C10_Witness ==
    /\ IsNewOf(GTIN_REF2, LOT_UPPER, <<48, 49>>, <<48, 49>>, <<48, 49>>)
    /\ result.kind = "Ok"
    /\ result.value.voice_code_minor = <<49, 48>>
    /\ result.value.voice_code_major = <<56, 53>>

\* a date component of 1 or 2 chars with at most one leading zero added
TwoChars(s) == IF Len(s) = 1 THEN <<48>> \o s ELSE s

\* C11: in every record new returns, pack_date is exactly 6 chars, all
\* digits: the zero-padded yy, then mm, then dd.
C11_PackDate ==
    NewOk =>
        /\ Len(result.value.pack_date) = 6
        /\ AllAsciiDigits(result.value.pack_date)
        /\ result.value.pack_date = TwoChars(args.yy) \o TwoChars(args.mm) \o TwoChars(args.dd)

\* the two decimal digits of a number 0..99
TwoDigits(n) == <<48 + (n \div 10), 48 + (n % 10)>>

\* the last n chars of s
Suffix(s, n) == SubSeq(s, Len(s) - n + 1, Len(s))

\* C12: new_naive(gtin, lot, date) returns what new(gtin, lot, YY, MM, DD)
\* returns for the two-digit year mod 100, month and day of the date; the
\* date checks never fail and the hash_text of the record ends with its
\* 6-digit pack_date.
C12_NewNaive ==
    call = "new_naive" =>
        LET YY == TwoDigits(args.pack_date[1] % 100)
            MM == TwoDigits(args.pack_date[2])
            DD == TwoDigits(args.pack_date[3])
        IN  /\ result = new(args.rev, args.gtin, args.lot, YY, MM, DD)
            /\ result.kind = "Err" => result.value \notin {ERR_YY, ERR_MM, ERR_DD}
            /\ result.kind = "Ok" =>
                  /\ result.value.pack_date = YY \o MM \o DD
                  /\ Len(result.value.pack_date) = 6
                  /\ AllAsciiDigits(result.value.pack_date)
                  /\ Suffix(result.value.hash_text, 6) = result.value.pack_date

\* tests::test_naive_date: 01/01/2001 gives "1085"
C12_Witness ==
    /\ call = "new_naive"
    /\ args.gtin = GTIN_REF2 /\ args.lot = LOT_UPPER
    /\ args.pack_date = <<2001, 1, 1>>
    /\ result.kind = "Ok"
    /\ result.value.voice_code = CODE_1085
    /\ Suffix(result.value.hash_text, 6) = <<48, 49, 48, 49, 48, 49>>

OtherRevision(rev) == IF rev = "lib" THEN "voicecode" ELSE "lib"

IsLutOfVoicecode == call = "create_crc_lut" /\ args.polynomial = CRC_POLYNOMIAL

\* C13 as stated: the literal table of lib.rs and the table built by
\* create_crc_lut(40961) differ in at least one entry, and some input
\* string has different digests over the two tables.
C13_TablesDiffer ==
    IsLutOfVoicecode =>
        /\ \E i \in 1..256 : result.value[i] # HASH_VOICE_CHECKSUM_HASH_T_lib[i]
        /\ \E input \in HashInputs :
              generate_voice_code_hash("lib", input) # generate_voice_code_hash("voicecode", input)

\* C13: the literal 256-entry table of lib.rs (entry 1 = 0xC0C1) and the
\* table built by create_crc_lut(40961) are equal entry by entry, and the
\* hash of every input is the same over either table.
C13_TablesEqual ==
    /\ IsLutOfVoicecode =>
          /\ Len(result.value) = 256
          /\ result.value[2] = 49345
          /\ \A i \in 1..256 : result.value[i] = HASH_VOICE_CHECKSUM_HASH_T_lib[i]
    /\ call = "generate_voice_code_hash" =>
          result.value = generate_voice_code_hash(OtherRevision(args.rev), args.input)

C13_Witness ==
    /\ IsLutOfVoicecode
    /\ args.polynomial = 40961
    /\ result.value[2] = 49345
    /\ result.value[256] = HASH_VOICE_CHECKSUM_HASH_T_lib[256]

\* the accumulator after the first n chars of input
AccumulatorAfter(rev, input, n) == fold(rev, 0, SubSeq(input, 1, n), 1)

\* C14: for every input string, chars above 16 bits included, every table
\* index of generate_voice_code_hash is in 0..255 and the accumulator stays
\* in 0..65535; for every input new accepts, voice_code[..2] and
\* voice_code[2..] lie within the 4-char voice_code; no call panics.
C14_NoOutOfRange ==
    /\ call = "generate_voice_code_hash" =>
          /\ \A n \in 0..Len(args.input) :
                /\ AccumulatorAfter(args.rev, args.input, n) \in 0..65535
                /\ n < Len(args.input) =>
                      table_index(AccumulatorAfter(args.rev, args.input, n),
                                  args.input[n + 1]) \in 0..255
          /\ result.value # PANIC_TEXT
    /\ call \in {"new", "new_naive"} =>
          /\ result.kind \in {"Ok", "Err"}
          /\ result.kind = "Ok" =>
                /\ Len(result.value.voice_code) = 4
                /\ result.value.voice_code # PANIC_TEXT
                /\ result.value.voice_code_minor # PANIC_TEXT
                /\ result.value.voice_code_major # PANIC_TEXT
                /\ Len(result.value.voice_code_minor) = 2
                /\ Len(result.value.voice_code_major) = Len(result.value.voice_code) - 2

\* three chars above 16 bits (U+1D7CE), each truncated by `as u16`
C14_Witness ==
    /\ call = "generate_voice_code_hash"
    /\ args.input = run(120782, 3)
    /\ as_u16(args.input[1]) # args.input[1]
    /\ AccumulatorAfter(args.rev, args.input, 3) > 255
    /\ IsFourDigits(result.value)

====
